---- MODULE Spec2Model ----
(***************************************************************************)
(* Model of pkg/kritis/cryptolib/verifier.go: the attestation verifier.    *)
(*                                                                         *)
(* Byte strings are modelled by symbolic values.  A Signature is the pair  *)
(* (signer, over): the key whose private half produced it and the payload  *)
(* it was produced over; "pubB" is a key outside every key set and         *)
(* signer = Corrupt is a byte string that no key verifies.  Go error values are records (msg, arg): msg is the message   *)
(* or format string of the source and arg its %q argument.                 *)
(***************************************************************************)
EXTENDS Naturals, Sequences, FiniteSets, TLC

VARIABLES publicKeySet, v, built, pc, att, out

vars == <<publicKeySet, v, built, pc, att, out>>

----------------------------------------------------------------------------
(* Bounds and value universes *)

MaxKeys == 2

KeyTypes == {"Pkix", "Pgp", "Jwt", "UnknownKeyType"}
KeyDatas == {"pubA"}
Signers == KeyDatas \cup {"pubB"}
KeyIDs == {"k1", "k2"}
AttKeyIDs == KeyIDs \cup {"missing"}
Digests == {"", "sha256:abc", "sha256:def"}

EmptyBytes == ""
PayloadAbc == "{digest:sha256:abc}"
PayloadJunk == "junk"
AttPayloads == {PayloadAbc, PayloadJunk}

Corrupt == "corrupt"
Signatures ==
    [signer : Signers, over : AttPayloads] \cup {[signer |-> Corrupt, over |-> EmptyBytes]}

Attestation == [PublicKeyID : AttKeyIDs, Signature : Signatures, SerializedPayload : AttPayloads]

PublicKey == [KeyType : KeyTypes, KeyData : KeyDatas, ID : KeyIDs]

KeySeqs == UNION {[1..n -> PublicKey] : n \in 0..MaxKeys}

----------------------------------------------------------------------------
(* Error values *)

Nil == [msg |-> "<nil>", arg |-> ""]
Err(m) == [msg |-> m, arg |-> ""]

ErrUnknownKeyID(id) == [msg |-> "no public key with ID %q found", arg |-> id]
ErrUnsupportedKeyMode == Err("signature uses an unsupported key mode")
ErrPkixNotImplemented == Err("verify pkix not implemented")
ErrJwtNotImplemented == Err("verify jwt not implemented")
ErrTrustMismatch == Err("invalid payload for authenticated attestation")
ErrSignatureInvalid == Err("signature invalid")

----------------------------------------------------------------------------
(* NewPublicKey *)

NewPublicKey(keyType, keyData, keyID) ==
    [KeyType |-> keyType, KeyData |-> keyData, ID |-> keyID]

----------------------------------------------------------------------------
(* indexPublicKeysByID: the range loop over publicKeyset.  st.keyMap is    *)
(* the map built so far, st.warnings the number of glog warnings emitted.  *)

EmptyKeyMap == [id \in {} |-> NewPublicKey("Pkix", "pubA", "k1")]

RECURSIVE indexLoop(_, _, _)
indexLoop(publicKeyset, i, st) ==
    IF i > Len(publicKeyset) THEN st
    ELSE LET publicKey == publicKeyset[i]
             ok == publicKey.ID \in DOMAIN st.keyMap
             keyMap == [id \in DOMAIN st.keyMap \cup {publicKey.ID} |->
                           IF id = publicKey.ID THEN publicKey ELSE st.keyMap[id]]
         IN indexLoop(publicKeyset, i + 1,
                      [keyMap |-> keyMap,
                       warnings |-> IF ok THEN st.warnings + 1 ELSE st.warnings])

(* Mutant: a key whose ID is already present is skipped (first write wins). *)
RECURSIVE indexLoopFirstWins(_, _, _)
indexLoopFirstWins(publicKeyset, i, st) ==
    IF i > Len(publicKeyset) THEN st
    ELSE LET publicKey == publicKeyset[i]
             ok == publicKey.ID \in DOMAIN st.keyMap
             keyMap == [id \in DOMAIN st.keyMap \cup {publicKey.ID} |->
                           IF id \in DOMAIN st.keyMap THEN st.keyMap[id] ELSE publicKey]
         IN indexLoopFirstWins(publicKeyset, i + 1,
                               [keyMap |-> keyMap,
                                warnings |-> IF ok THEN st.warnings + 1 ELSE st.warnings])

indexPublicKeysByID_FirstWins(publicKeyset) ==
    indexLoopFirstWins(publicKeyset, 1, [keyMap |-> EmptyKeyMap, warnings |-> 0])

indexPublicKeysByID(publicKeyset) ==
    indexLoop(publicKeyset, 1, [keyMap |-> EmptyKeyMap, warnings |-> 0])

----------------------------------------------------------------------------
(* NewVerifier: the verifier struct with the default backends, and the     *)
(* returned error, which is always nil.                                    *)

NewVerifier(imageDigest, keySet) ==
    LET idx == indexPublicKeysByID(keySet)
    IN [verifier |-> [ImageDigest |-> imageDigest,
                      PublicKeys |-> idx.keyMap,
                      pkixVerifier |-> "pkixVerifierImpl",
                      pgpVerifier |-> "pgpVerifierImpl",
                      jwtVerifier |-> "jwtVerifierImpl",
                      authenticatedAuthChecker |-> "attAuthChecker"],
        err |-> Nil,
        warnings |-> idx.warnings]

----------------------------------------------------------------------------
(* Algorithm verifiers *)

pkixVerifierImpl_verifyPkix(signature, payload, publicKey) == ErrPkixNotImplemented

(* Mutant: the stub accepts and returns the embedded payload. *)
jwtVerifierImpl_verifyJwt_Accepts(signature, publicKey) ==
    [payload |-> signature.over, err |-> Nil]

jwtVerifierImpl_verifyJwt(signature, publicKey) ==
    [payload |-> EmptyBytes, err |-> ErrJwtNotImplemented]

(* pgpVerifierImpl lives outside verifier.go: it accepts a signature made  *)
(* by the key and returns the payload embedded in it.                      *)
pgpVerifierImpl_verifyPgp(signature, publicKey) ==
    IF signature.signer = publicKey
    THEN [payload |-> signature.over, err |-> Nil]
    ELSE [payload |-> EmptyBytes, err |-> ErrSignatureInvalid]

(* Working implementations of the pkixVerifier and jwtVerifier interfaces, *)
(* substituted for the defaults through the struct's embedded interfaces.  *)
workingPkixVerifier_verifyPkix(signature, payload, publicKey) ==
    IF signature.signer = publicKey /\ signature.over = payload
    THEN Nil
    ELSE ErrSignatureInvalid

workingJwtVerifier_verifyJwt(signature, publicKey) ==
    IF signature.signer = publicKey
    THEN [payload |-> signature.over, err |-> Nil]
    ELSE [payload |-> EmptyBytes, err |-> ErrSignatureInvalid]

(* Method calls through the interfaces embedded in the verifier struct. *)
verifyPkix(vr, signature, payload, publicKey) ==
    IF vr.pkixVerifier = "pkixVerifierImpl"
    THEN pkixVerifierImpl_verifyPkix(signature, payload, publicKey)
    ELSE workingPkixVerifier_verifyPkix(signature, payload, publicKey)

verifyPgp(vr, signature, publicKey) == pgpVerifierImpl_verifyPgp(signature, publicKey)

verifyJwt(vr, signature, publicKey) ==
    IF vr.jwtVerifier = "jwtVerifierImpl"
    THEN jwtVerifierImpl_verifyJwt(signature, publicKey)
    ELSE workingJwtVerifier_verifyJwt(signature, publicKey)

----------------------------------------------------------------------------
(* Trust extractor and trust checker *)

authenticatedAttestation == [ImageDigest |-> ""]

formAuthenticatedAttestation(payload) == authenticatedAttestation

checkAuthenticatedAttestation(actual, imageDigest) ==
    IF actual.ImageDigest # imageDigest THEN ErrTrustMismatch ELSE Nil

----------------------------------------------------------------------------
(* VerifyAttestation.  The result records the returned error together with *)
(* what the call did: calls is the sequence of components invoked,         *)
(* verifierErr the error of the algorithm verifier, payload the bytes      *)
(* handed to formAuthenticatedAttestation and actual its result.           *)

Return(err, calls, verifierErr, payload, actual) ==
    [err |-> err, calls |-> calls, verifierErr |-> verifierErr,
     payload |-> payload, actual |-> actual]

VerifierCalls == {"verifyPkix", "verifyPgp", "verifyJwt"}

(* The switch on publicKey.KeyType: which verifier ran (call = "default"   *)
(* for the default branch), its error, and the local variable payload.     *)
dispatch_DefaultPkix(vr, a, publicKey) ==
    CASE publicKey.KeyType = "Pgp" ->
           LET r == verifyPgp(vr, a.Signature, publicKey.KeyData)
           IN [call |-> "verifyPgp", err |-> r.err, payload |-> r.payload]
      [] publicKey.KeyType = "Jwt" ->
           LET r == verifyJwt(vr, a.Signature, publicKey.KeyData)
           IN [call |-> "verifyJwt", err |-> r.err, payload |-> r.payload]
      [] OTHER ->
           [call |-> "verifyPkix",
            err |-> verifyPkix(vr, a.Signature, a.SerializedPayload, publicKey.KeyData),
            payload |-> a.SerializedPayload]

dispatch_NoPayloadAssign(vr, a, publicKey) ==
    CASE publicKey.KeyType = "Pkix" ->
           [call |-> "verifyPkix",
            err |-> verifyPkix(vr, a.Signature, a.SerializedPayload, publicKey.KeyData),
            payload |-> EmptyBytes]
      [] publicKey.KeyType = "Pgp" ->
           LET r == verifyPgp(vr, a.Signature, publicKey.KeyData)
           IN [call |-> "verifyPgp", err |-> r.err, payload |-> r.payload]
      [] publicKey.KeyType = "Jwt" ->
           LET r == verifyJwt(vr, a.Signature, publicKey.KeyData)
           IN [call |-> "verifyJwt", err |-> r.err, payload |-> r.payload]
      [] OTHER ->
           [call |-> "default", err |-> ErrUnsupportedKeyMode, payload |-> EmptyBytes]

dispatch(vr, a, publicKey) ==
    CASE publicKey.KeyType = "Pkix" ->
           [call |-> "verifyPkix",
            err |-> verifyPkix(vr, a.Signature, a.SerializedPayload, publicKey.KeyData),
            payload |-> a.SerializedPayload]
      [] publicKey.KeyType = "Pgp" ->
           LET r == verifyPgp(vr, a.Signature, publicKey.KeyData)
           IN [call |-> "verifyPgp", err |-> r.err, payload |-> r.payload]
      [] publicKey.KeyType = "Jwt" ->
           LET r == verifyJwt(vr, a.Signature, publicKey.KeyData)
           IN [call |-> "verifyJwt", err |-> r.err, payload |-> r.payload]
      [] OTHER ->
           [call |-> "default", err |-> ErrUnsupportedKeyMode, payload |-> EmptyBytes]

(* The tail of VerifyAttestation: extract the verified payload, check it. *)
extractAndCheck_NoCheck(vr, ver) ==
    LET actual == formAuthenticatedAttestation(ver.payload)
    IN Return(Nil, <<ver.call, "formAuthenticatedAttestation">>, Nil, ver.payload, actual)

extractAndCheck(vr, ver) ==
    LET actual == formAuthenticatedAttestation(ver.payload)
    IN Return(checkAuthenticatedAttestation(actual, vr.ImageDigest),
              <<ver.call, "formAuthenticatedAttestation", "checkAuthenticatedAttestation">>,
              Nil, ver.payload, actual)

(* Mutant: the map lookup's ok is ignored, the zero PublicKey is used. *)
VerifyAttestation_ZeroKey(vr, a) ==
    LET publicKey == IF a.PublicKeyID \in DOMAIN vr.PublicKeys
                     THEN vr.PublicKeys[a.PublicKeyID]
                     ELSE [KeyType |-> "UnknownKeyType", KeyData |-> EmptyBytes, ID |-> ""]
        ver == dispatch(vr, a, publicKey)
    IN  IF ver.call = "default"
        THEN Return(ver.err, <<>>, Nil, EmptyBytes, authenticatedAttestation)
        ELSE IF ver.err # Nil
        THEN Return(ver.err, <<ver.call>>, ver.err, EmptyBytes, authenticatedAttestation)
        ELSE extractAndCheck(vr, ver)

(* Mutant: the verifier's error is not checked. *)
VerifyAttestation_IgnoreErr(vr, a) ==
    IF a.PublicKeyID \notin DOMAIN vr.PublicKeys
    THEN Return(ErrUnknownKeyID(a.PublicKeyID), <<>>, Nil, EmptyBytes, authenticatedAttestation)
    ELSE
    LET publicKey == vr.PublicKeys[a.PublicKeyID]
        ver == dispatch(vr, a, publicKey)
    IN  IF ver.call = "default"
        THEN Return(ver.err, <<>>, Nil, EmptyBytes, authenticatedAttestation)
        ELSE extractAndCheck(vr, ver)

VerifyAttestation(vr, a) ==
    IF a.PublicKeyID \notin DOMAIN vr.PublicKeys
    THEN Return(ErrUnknownKeyID(a.PublicKeyID), <<>>, Nil, EmptyBytes, authenticatedAttestation)
    ELSE
    LET publicKey == vr.PublicKeys[a.PublicKeyID]
        ver == dispatch(vr, a, publicKey)
    IN  IF ver.call = "default"
        THEN Return(ver.err, <<>>, Nil, EmptyBytes, authenticatedAttestation)
        ELSE IF ver.err # Nil
        THEN Return(ver.err, <<ver.call>>, ver.err, EmptyBytes, authenticatedAttestation)
        ELSE extractAndCheck(vr, ver)

----------------------------------------------------------------------------
(* State machine: a verifier is constructed from (imageDigest, keySet) and *)
(* then verifies attestations; out holds the last call's result.           *)

NoAtt == [PublicKeyID |-> "missing",
          Signature |-> [signer |-> Corrupt, over |-> EmptyBytes],
          SerializedPayload |-> PayloadJunk]
NoOut == Return(Nil, <<>>, Nil, EmptyBytes, authenticatedAttestation)

Init ==
    \E imageDigest \in Digests, keySet \in KeySeqs :
        LET r == NewVerifier(imageDigest, keySet)
        IN /\ publicKeySet = keySet
           /\ v = r.verifier
           /\ built = [err |-> r.err, warnings |-> r.warnings]
           /\ pc = "constructed"
           /\ att = NoAtt
           /\ out = NoOut

(* A working PKIX / JWT implementation is put in place of the default. *)
SetVerifiers ==
    \E px \in {"pkixVerifierImpl", "workingPkixVerifier"},
       jw \in {"jwtVerifierImpl", "workingJwtVerifier"} :
        /\ v' = [v EXCEPT !.pkixVerifier = px, !.jwtVerifier = jw]
        /\ v' # v
        /\ pc' = "constructed"
        /\ att' = NoAtt
        /\ out' = NoOut
        /\ UNCHANGED <<publicKeySet, built>>

VerifyAttestationCall ==
    \E a \in Attestation :
        /\ built.err = Nil
        /\ att' = a
        /\ out' = VerifyAttestation(v, a)
        /\ pc' = "verified"
        /\ UNCHANGED <<publicKeySet, v, built>>

Next == SetVerifiers \/ VerifyAttestationCall

Spec == Init /\ [][Next]_vars

----------------------------------------------------------------------------
(* Vocabulary of the properties, stated on the inputs (the key set given   *)
(* to NewVerifier, the attestation) and on the recorded result.            *)

Verified == pc = "verified"

IDsOf(keys) == {keys[i].ID : i \in 1..Len(keys)}

LastIndexOf(keys, id) ==
    CHOOSE i \in 1..Len(keys) :
        /\ keys[i].ID = id
        /\ \A j \in 1..Len(keys) : keys[j].ID = id => j <= i

(* The key the attestation names: the last key of the key set with its ID. *)
NamedKeyKnown == att.PublicKeyID \in IDsOf(publicKeySet)
NamedKey == publicKeySet[LastIndexOf(publicKeySet, att.PublicKeyID)]

Invoked(call) == \E i \in 1..Len(out.calls) : out.calls[i] = call
VerifierInvoked == \E c \in VerifierCalls : Invoked(c)
SignatureVerified == VerifierInvoked /\ out.verifierErr = Nil

(* The signature is a genuine signature by the named key over the payload. *)
GenuineOverPayload ==
    /\ att.Signature.signer = NamedKey.KeyData
    /\ att.Signature.over = att.SerializedPayload

(* The digest a payload encodes; "" when it cannot be parsed. *)
DigestEncodedIn(payload) == IF payload = PayloadAbc THEN "sha256:abc" ELSE ""

ScenarioAKeySet == <<NewPublicKey("Pkix", "pubA", "k1")>>

(* What the verifier the key's type selects returns on this attestation. *)
SelectedVerifierResult ==
    CASE NamedKey.KeyType = "Pkix" ->
           [err |-> verifyPkix(v, att.Signature, att.SerializedPayload, NamedKey.KeyData),
            payload |-> att.SerializedPayload]
      [] NamedKey.KeyType = "Pgp" -> verifyPgp(v, att.Signature, NamedKey.KeyData)
      [] NamedKey.KeyType = "Jwt" -> verifyJwt(v, att.Signature, NamedKey.KeyData)

----------------------------------------------------------------------------
(* C1 (as claimed): scenario A -- key set [k1: Pkix], an attestation naming *)
(* k1 whose signature the PKIX verifier accepts over SerializedPayload and  *)
(* whose payload encodes the expected digest -- returns success.            *)
C1_ScenarioASucceeds ==
    ( /\ Verified
      /\ publicKeySet = ScenarioAKeySet
      /\ att.PublicKeyID = "k1"
      /\ GenuineOverPayload
      /\ Invoked("verifyPkix") /\ out.verifierErr = Nil
      /\ v.ImageDigest # ""
      /\ DigestEncodedIn(att.SerializedPayload) = v.ImageDigest )
    => out.err = Nil

(* C2 (as claimed): a trusted claim with an empty ImageDigest is never     *)
(* valid -- for every expected digest, the empty one included, the trust   *)
(* check returns TrustMismatch and VerifyAttestation does not succeed.     *)
C2_EmptyClaimNeverValid ==
    ( /\ Verified
      /\ Invoked("checkAuthenticatedAttestation")
      /\ out.actual.ImageDigest = "" )
    => out.err = ErrTrustMismatch

(* C3: after a successful signature check, a claim digest different from   *)
(* the expected digest gives TrustMismatch, and the outcome is exactly the *)
(* trust checker's result on (claim, expected digest).                     *)
C3_OutcomeIsTrustCheck ==
    (Verified /\ SignatureVerified) =>
        /\ out.actual.ImageDigest # v.ImageDigest => out.err = ErrTrustMismatch
        /\ out.actual.ImageDigest = v.ImageDigest => out.err = Nil
        /\ out.err = checkAuthenticatedAttestation(out.actual, v.ImageDigest)
        /\ Invoked("checkAuthenticatedAttestation")

C3_Witness ==
    /\ Verified /\ SignatureVerified
    /\ v.ImageDigest = "sha256:def"
    /\ att.SerializedPayload = PayloadAbc
    /\ out.actual.ImageDigest # v.ImageDigest
    /\ out.err = ErrTrustMismatch

(* C4: an attestation whose PublicKeyID is the ID of no key of the key set *)
(* gets UnknownKeyID, and no verifier, extractor or checker is invoked.    *)
C4_UnknownKeyID ==
    (Verified /\ ~NamedKeyKnown) =>
        /\ out.err = ErrUnknownKeyID(att.PublicKeyID)
        /\ out.calls = <<>>

C4_Witness ==
    /\ Verified /\ ~NamedKeyKnown
    /\ Len(publicKeySet) >= 1
    /\ att.PublicKeyID = "missing"
    /\ att.Signature.signer = "pubA"
    /\ out.err = ErrUnknownKeyID("missing")

(* C5: an error of the selected algorithm verifier is returned unchanged,  *)
(* without the extractor or the checker running; the extractor only runs   *)
(* right after a verifier of the same call has returned success.           *)
C5_VerifierErrorPropagates ==
    Verified =>
        /\ ( /\ NamedKeyKnown
             /\ NamedKey.KeyType \in {"Pkix", "Pgp", "Jwt"}
             /\ SelectedVerifierResult.err # Nil )
           => /\ out.err = SelectedVerifierResult.err
              /\ out.err # Nil
              /\ ~Invoked("formAuthenticatedAttestation")
              /\ ~Invoked("checkAuthenticatedAttestation")
        /\ \A i \in 1..Len(out.calls) :
              out.calls[i] = "formAuthenticatedAttestation"
              => /\ i = 2
                 /\ out.calls[1] \in VerifierCalls
                 /\ NamedKeyKnown
                 /\ NamedKey.KeyType \in {"Pkix", "Pgp", "Jwt"}
                 /\ SelectedVerifierResult.err = Nil

C5_Witness ==
    /\ Verified /\ NamedKeyKnown
    /\ NamedKey.KeyType = "Pkix"
    /\ v.pkixVerifier = "pkixVerifierImpl"
    /\ GenuineOverPayload
    /\ out.calls = <<"verifyPkix">>
    /\ out.err = ErrPkixNotImplemented

(* C6 (as claimed): tampering with scenario A -- a Signature or a          *)
(* SerializedPayload changed so that the signature no longer verifies over *)
(* the payload -- gives SignatureInvalid, never success.                   *)
C6_TamperingIsSignatureInvalid ==
    ( /\ Verified
      /\ publicKeySet = ScenarioAKeySet
      /\ v.ImageDigest = "sha256:abc"
      /\ att.PublicKeyID = "k1"
      /\ ~GenuineOverPayload )
    => out.err = ErrSignatureInvalid

(* C7: a key whose type is none of Pkix, Pgp, Jwt gives UnsupportedKeyMode *)
(* whatever the signature, payload and expected digest, and no verifier,   *)
(* extractor or checker is invoked.                                        *)
C7_UnsupportedKeyMode ==
    ( /\ Verified /\ NamedKeyKnown
      /\ NamedKey.KeyType \notin {"Pkix", "Pgp", "Jwt"} )
    => /\ out.err = ErrUnsupportedKeyMode
       /\ out.calls = <<>>

C7_Witness ==
    /\ Verified /\ NamedKeyKnown
    /\ NamedKey.KeyType = "UnknownKeyType"
    /\ GenuineOverPayload
    /\ v.ImageDigest = ""
    /\ out.err = ErrUnsupportedKeyMode

(* C8: the registry has exactly one entry per distinct ID of the key set,  *)
(* each the last key with that ID in input order, and a duplicate ID never *)
(* makes construction fail.                                                *)
C8_LastWriteWins ==
    /\ DOMAIN v.PublicKeys = IDsOf(publicKeySet)
    /\ \A id \in IDsOf(publicKeySet) :
          v.PublicKeys[id] = publicKeySet[LastIndexOf(publicKeySet, id)]
    /\ built.err = Nil

C8_Witness ==
    /\ Len(publicKeySet) = 2
    /\ publicKeySet[1].ID = "k1" /\ publicKeySet[2].ID = "k1"
    /\ publicKeySet[1].KeyType = "Pkix" /\ publicKeySet[2].KeyType = "Pgp"
    /\ v.PublicKeys["k1"].KeyType = "Pgp"
    /\ built.warnings = 1
    /\ built.err = Nil

(* C9: with the JWT backend NewVerifier wires in, a Jwt key gives the      *)
(* not-implemented error for every signature and payload, and that error   *)
(* differs from SignatureInvalid, TrustMismatch, UnknownKeyID and          *)
(* UnsupportedKeyMode.                                                     *)
C9_JwtNotImplemented ==
    ( /\ Verified /\ NamedKeyKnown
      /\ NamedKey.KeyType = "Jwt"
      /\ v.jwtVerifier = NewVerifier(v.ImageDigest, publicKeySet).verifier.jwtVerifier )
    => /\ out.err = ErrJwtNotImplemented
       /\ out.err.msg \notin {ErrSignatureInvalid.msg, ErrTrustMismatch.msg,
                              ErrUnknownKeyID(att.PublicKeyID).msg,
                              ErrUnsupportedKeyMode.msg, Nil.msg}

C9_Witness ==
    /\ Verified /\ NamedKeyKnown
    /\ NamedKey.KeyType = "Jwt"
    /\ v = NewVerifier(v.ImageDigest, publicKeySet).verifier
    /\ att.Signature.signer = NamedKey.KeyData
    /\ out.err = ErrJwtNotImplemented

(* C10: for a Pkix key the extractor is handed exactly the attestation's   *)
(* SerializedPayload; for Pgp and Jwt keys it is handed the payload the    *)
(* verifier returned, not the attestation's SerializedPayload.             *)
C10_TrustedPayload ==
    (Verified /\ Invoked("formAuthenticatedAttestation")) =>
        /\ NamedKey.KeyType = "Pkix" => out.payload = att.SerializedPayload
        /\ NamedKey.KeyType \in {"Pgp", "Jwt"} =>
              /\ out.payload = SelectedVerifierResult.payload
              /\ out.payload = att.Signature.over

C10_Witness ==
    /\ Verified /\ Invoked("formAuthenticatedAttestation")
    /\ NamedKey.KeyType = "Pkix"
    /\ out.calls[1] = "verifyPkix"
    /\ att.SerializedPayload = PayloadAbc
    /\ out.payload = PayloadAbc

====
